---- MODULE Spec2Model ----
(***************************************************************************)
(* Model of the Garmin body-composition Telegram bot:                      *)
(*   garminbot.py        message handler (process_message), validators,    *)
(*                       backend wrapper (_run_garmin_script)              *)
(*   garminconnectapi.py login protocol (init_api), CLI entry point        *)
(*   llmfeedback.py      optional AI feedback (get_feedback)               *)
(*                                                                         *)
(* Text is a sequence of one-character strings.  A float is a record       *)
(* [nan, m] whose m counts thousandths; an optional value is a sequence of *)
(* length 0 (None / key absent) or 1.                                      *)
(*                                                                         *)
(* Environment assumptions: the chat transport delivers the replies (a     *)
(* reply_text call does not raise); the Garmin service, the token files,   *)
(* the LLM and the operating system are nondeterministic.  Spec takes each *)
(* handler call as one step; SpecDispatch splits it at its awaits and adds *)
(* the queue of updates of the Application built in main(); SpecBackend,   *)
(* SpecValidate and SpecLogin run _run_garmin_script, the validator and    *)
(* init_api on their own.                                                  *)
(***************************************************************************)
EXTENDS Integers, Sequences, FiniteSets, TLC

(***************************************************************************)
(* Python string primitives                                                *)
(***************************************************************************)
Whitespace == {" ", "\n"}

Digits == {"0", "1", "2", "3", "4", "5", "6", "7", "8", "9"}

DigitVal(c) ==
    CASE c = "0" -> 0 [] c = "1" -> 1 [] c = "2" -> 2 [] c = "3" -> 3
      [] c = "4" -> 4 [] c = "5" -> 5 [] c = "6" -> 6 [] c = "7" -> 7
      [] c = "8" -> 8 [] c = "9" -> 9

RECURSIVE LStrip(_)
LStrip(s) ==
    IF s # <<>> /\ Head(s) \in Whitespace THEN LStrip(Tail(s)) ELSE s

RECURSIVE RStrip(_)
RStrip(s) ==
    IF s # <<>> /\ s[Len(s)] \in Whitespace
    THEN RStrip(SubSeq(s, 1, Len(s) - 1))
    ELSE s

\* str.strip()
Strip(s) == RStrip(LStrip(s))

\* index of the first occurrence of c in s, 0 when there is none
RECURSIVE FindFrom(_, _, _)
FindFrom(s, c, i) ==
    IF i > Len(s) THEN 0
    ELSE IF s[i] = c THEN i
    ELSE FindFrom(s, c, i + 1)

Find(s, c) == FindFrom(s, c, 1)

\* str.split(c): every segment between occurrences of c
RECURSIVE Split(_, _)
Split(s, c) ==
    LET i == Find(s, c)
    IN  IF i = 0 THEN <<s>>
        ELSE <<SubSeq(s, 1, i - 1)>> \o Split(SubSeq(s, i + 1, Len(s)), c)

\* str.splitlines(): no line for the empty string, none after a final newline
SplitLines(s) ==
    IF s = <<>> THEN <<>>
    ELSE LET parts == Split(s, "\n")
         IN  IF parts[Len(parts)] = <<>>
             THEN SubSeq(parts, 1, Len(parts) - 1)
             ELSE parts

\* "\n".join(lines)
RECURSIVE JoinLines(_)
JoinLines(lines) ==
    IF lines = <<>> THEN <<>>
    ELSE IF Len(lines) = 1 THEN lines[1]
    ELSE lines[1] \o <<"\n">> \o JoinLines(Tail(lines))

\* bool(s) of an optional string: None and "" are falsy
Truthy(opt) == opt # <<>> /\ opt[1] # <<>>

(***************************************************************************)
(* Numbers in fixed point: a float counts thousandths, and the texts drawn  *)
(* below have at most three fractional digits.                             *)
(***************************************************************************)
Scale == 10 * 10 * 10

Float(m) == [nan |-> FALSE, m |-> m]

NaN == [nan |-> TRUE, m |-> 0]

RECURSIVE DigitsValue(_, _)
DigitsValue(s, acc) ==
    IF s = <<>> THEN acc ELSE DigitsValue(Tail(s), 10 * acc + DigitVal(Head(s)))

AllDigits(s) == \A i \in 1..Len(s) : s[i] \in Digits

\* the fraction digits as thousandths
FracValue(s) ==
    LET d == SubSeq(s, 1, IF Len(s) < 3 THEN Len(s) ELSE 3)
        pad == CASE Len(d) = 1 -> 100 [] Len(d) = 2 -> 10 [] OTHER -> 1
    IN  IF d = <<>> THEN 0 ELSE DigitsValue(d, 0) * pad

\* float(s): surrounding whitespace, a sign, "nan", digits with at most one
\* point and at least one digit; anything else raises ValueError (ok = FALSE)
ParseFloat(str) ==
    LET s == Strip(str)
        neg == s # <<>> /\ Head(s) = "-"
        u == IF s # <<>> /\ Head(s) \in {"-", "+"} THEN Tail(s) ELSE s
        p == Find(u, ".")
        ip == IF p = 0 THEN u ELSE SubSeq(u, 1, p - 1)
        fp == IF p = 0 THEN <<>> ELSE SubSeq(u, p + 1, Len(u))
        mag == DigitsValue(ip, 0) * Scale + FracValue(fp)
    IN  IF u = <<"n", "a", "n">> THEN [ok |-> TRUE, val |-> NaN]
        ELSE IF AllDigits(ip) /\ AllDigits(fp) /\ Len(ip) + Len(fp) > 0
        THEN [ok |-> TRUE, val |-> Float(IF neg THEN 0 - mag ELSE mag)]
        ELSE [ok |-> FALSE, val |-> NaN]

\* int(s): surrounding whitespace, a sign, digits only
ParseInt(str) ==
    LET s == Strip(str)
        neg == s # <<>> /\ Head(s) = "-"
        u == IF s # <<>> /\ Head(s) \in {"-", "+"} THEN Tail(s) ELSE s
        mag == DigitsValue(u, 0)
    IN  IF u # <<>> /\ AllDigits(u)
        THEN [ok |-> TRUE, val |-> IF neg THEN 0 - mag ELSE mag]
        ELSE [ok |-> FALSE, val |-> 0]

\* round-half-even of n / d for n >= 0, d > 0
RoundDiv(n, d) ==
    LET q == n \div d
        r == n % d
    IN  IF 2 * r > d \/ (2 * r = d /\ q % 2 = 1) THEN q + 1 ELSE q

RoundDivSigned(n, d) == IF n < 0 THEN 0 - RoundDiv(0 - n, d) ELSE RoundDiv(n, d)

\* The thousandths drawn below that end in 5 and are no multiple of 1/8: the
\* double nearest to such a value is not the value, and round() follows the
\* double.  These are the ones whose double lies below the decimal value.
DoubleBelowTie == {31255, 1005, 1015}

\* round(x, 2): half-even when the double is exactly the tie
Round2(x) ==
    IF x.nan THEN NaN
    ELSE IF x.m >= 0 /\ x.m % 10 = 5 /\ x.m % 125 # 0
    THEN Float(IF x.m \in DoubleBelowTie THEN x.m - 5 ELSE x.m + 5)
    ELSE Float(RoundDivSigned(x.m, 10) * 10)

\* x <= 1 (False for nan)
LeOne(x) == ~x.nan /\ x.m <= Scale

\* the product cut to two decimals instead of rounded
MuscleFromPercentTruncated(weight, percent) ==
    IF weight.nan \/ percent.nan THEN NaN
    ELSE Float((((weight.m \div 10) * percent.m) \div 100000) * 10)

\* The pairs (weight, percent) drawn below whose exact product is a tie of
\* the second decimal and whose double weight * (percent / 100.0) lies above
\* the tie; the double of the other ties drawn lies below it.
ProductAboveTie ==
    {<<70500, 5000>>, <<70500, 55000>>, <<1500, 5000>>, <<1500, 55000>>}

\* round(weight * (percent / 100.0), 2): the nearest hundredth, at a tie the
\* side the double lies on
MuscleFromPercent(weight, percent) ==
    IF weight.nan \/ percent.nan THEN NaN
    ELSE LET n == (weight.m \div 10) * percent.m
         IN  IF n >= 0 /\ n % 100000 = 50000
             THEN Float(((n \div 100000)
                            + IF <<weight.m, percent.m>> \in ProductAboveTie
                              THEN 1 ELSE 0) * 10)
             ELSE Float(RoundDivSigned(n, 100000) * 10)

\* (muscle_mass / weight) * 100 if weight else 0.0, to the nearest thousandth
PercentFromMuscle(muscle, weight) ==
    IF weight.nan \/ muscle.nan THEN NaN
    ELSE IF weight.m = 0 THEN Float(0)
    ELSE Float(RoundDivSigned(muscle.m * 10000, weight.m \div 10))

(***************************************************************************)
(* Configuration read from the environment (garminbot.py:18-43)            *)
(***************************************************************************)
Users == {1, 2, 3, 4}

ALLOWED_IDS == {1, 2, 3}

\* USER_PROFILES: user 1 is unmapped, user 3 is mapped to an unknown key
USER_PROFILES == [u \in {2, 3} |-> IF u = 2 THEN "MI_SCALE" ELSE "FOO"]

DEFAULT_PROFILE == "OMRON"

\* the mapping ignored: every user under the default profile
get_user_profile_key_default_only(user_id) == DEFAULT_PROFILE

\* lines 63-65
get_user_profile_key(user_id) ==
    IF user_id \in DOMAIN USER_PROFILES THEN USER_PROFILES[user_id]
    ELSE DEFAULT_PROFILE

(***************************************************************************)
(* Measurement validator                                                   *)
(***************************************************************************)
\* line.split("#", 1)[0].strip()
strip_comment_and_parse_value(line) ==
    LET i == Find(line, "#")
    IN  Strip(IF i = 0 THEN line ELSE SubSeq(line, 1, i - 1))

Valid(data) == [ok |-> TRUE, err |-> "", data |-> <<data>>]

Invalid(err) == [ok |-> FALSE, err |-> err, data |-> <<>>]

validate_omron_profile(lines) ==
    IF Len(lines) < 5 THEN Invalid("expected_5_lines")
    ELSE LET w == ParseFloat(lines[1])
             bmi == ParseFloat(lines[2])
             fat == ParseFloat(lines[3])
             pm == ParseFloat(lines[4])
             visc == ParseInt(lines[5])
             weight == Round2(w.val)
         IN  IF ~(w.ok /\ bmi.ok /\ fat.ok /\ pm.ok /\ visc.ok)
             THEN Invalid("could_not_convert")
             ELSE IF LeOne(weight) THEN Invalid("weight_must_be_gt_1")
             ELSE Valid([weight |-> weight,
                         bmi |-> bmi.val,
                         percent_fat |-> fat.val,
                         percent_muscle |-> pm.val,
                         visceral_fat_rating |-> visc.val,
                         muscle_mass |-> MuscleFromPercent(weight, pm.val),
                         percent_hydration |-> <<>>,
                         bone_mass |-> <<>>])

validate_mi_scale_profile(lines) ==
    IF Len(lines) < 7 THEN Invalid("se_esperan_7_valores")
    ELSE LET w == ParseFloat(lines[1])
             bmi == ParseFloat(lines[2])
             fat == ParseFloat(lines[3])
             hyd == ParseFloat(lines[4])
             visc == ParseInt(lines[5])
             bone == ParseFloat(lines[6])
             mm == ParseFloat(lines[7])
             weight == Round2(w.val)
             muscle_mass == Round2(mm.val)
         IN  IF ~(w.ok /\ bmi.ok /\ fat.ok /\ hyd.ok /\ visc.ok /\ bone.ok /\ mm.ok)
             THEN Invalid("could_not_convert")
             ELSE IF LeOne(weight) THEN Invalid("el_peso_debe_ser_gt_1")
             ELSE Valid([weight |-> weight,
                         bmi |-> bmi.val,
                         percent_fat |-> fat.val,
                         percent_muscle |-> PercentFromMuscle(muscle_mass, weight),
                         visceral_fat_rating |-> visc.val,
                         muscle_mass |-> muscle_mass,
                         percent_hydration |-> <<hyd.val>>,
                         bone_mass |-> <<Round2(bone.val)>>])

validate_and_cast_dispatch(user_id, lines) ==
    LET profile_key == get_user_profile_key(user_id)
    IN  IF profile_key = "OMRON" THEN validate_omron_profile(lines)
        ELSE IF profile_key = "MI_SCALE" THEN validate_mi_scale_profile(lines)
        ELSE Invalid("unknown_profile_key")

\* garminbot.py:299, the non-blank lines with their comments stripped
RECURSIVE MeasurementLines(_)
MeasurementLines(raw) ==
    IF raw = <<>> THEN <<>>
    ELSE IF Strip(Head(raw)) # <<>>
    THEN <<strip_comment_and_parse_value(Head(raw))>> \o MeasurementLines(Tail(raw))
    ELSE MeasurementLines(Tail(raw))

(***************************************************************************)
(* The message texts the users send                                        *)
(***************************************************************************)
L_70_5c == <<"7", "0", ".", "5", " ", "#", "k", "g">>
L_24_1 == <<"2", "4", ".", "1">>
L_18_2 == <<"1", "8", ".", "2">>
L_40_3 == <<" ", "4", "0", ".", "3">>
L_5 == <<"5">>
L_55 == <<"5", "5">>
L_3_125 == <<"3", ".", "1", "2", "5">>
L_31_255 == <<"3", "1", ".", "2", "5", "5">>
L_mail == <<"a", "@", "b", " ">>
L_pw == <<" ", "p", "w">>
L_code == <<"1", "2", "3", "4", "5", "6">>
L_1 == <<"1">>

\* five values with a comment and a blank line: valid under OMRON only
TextOmron == JoinLines(<<L_70_5c, L_24_1, <<>>, L_18_2, L_40_3, L_5>>)

\* seven values: valid under both profiles
TextMiScale == JoinLines(<<L_70_5c, L_24_1, L_18_2, L_55, L_5, L_3_125, L_31_255>>)

\* email and password
TextCredentials == JoinLines(<<L_mail, L_pw>>) \o <<"\n">>

\* a single line
TextCode == L_code

TextBlank == <<" ", "\n", " ">>

\* seven lines, the third one no number: rejected under both profiles
TextBadField == JoinLines(<<L_70_5c, L_24_1, L_mail, L_55, L_5, L_3_125, L_31_255>>)

\* seven values with a weight of 1 and a blank second line: rejected under
\* both profiles; as credentials, more than two lines with an empty password
TextLightWeight ==
    JoinLines(<<L_1, <<>>, L_24_1, L_18_2, L_55, L_5, L_3_125, L_31_255>>)

Texts ==
    {TextOmron, TextMiScale, TextCredentials, TextCode, TextBlank, TextBadField,
     TextLightWeight}

\* text = (msg.text or "").strip(), text.splitlines() and the validation of
\* the text's lines, evaluated once for every text
StrippedText == [t \in Texts |-> Strip(t)]

LinesOf == [t \in Texts |-> SplitLines(StrippedText[t])]

Validated ==
    [u \in Users |->
        [t \in Texts |-> validate_and_cast_dispatch(u, MeasurementLines(LinesOf[t]))]]

(***************************************************************************)
(* garminconnectapi.py: the login protocol.  The outcomes of the Garmin    *)
(* library calls are the environment's choice, so each function is the set *)
(* of the outcomes it can have for its arguments.                          *)
(***************************************************************************)
EXIT_SUCCESS == 0
EXIT_SUBMISSION_ERROR == 1
EXIT_TOKEN_FAILURE == 2
EXIT_MFA_REQUIRED == 3
EXIT_TOO_MANY_MFA == 4

\* kind: "instance" (a Garmin object is returned), "exit" (sys.exit(code)),
\* "raise" (an exception that init_api does not catch)
InitOutcome(kind, code, credLogin, resumed, dumped) ==
    [kind |-> kind, code |-> code, credLogin |-> credLogin,
     resumed |-> resumed, dumped |-> dumped]

\* garmin.garth.dump(tokenstore) and its failures (lines 178-188)
SaveTokens(resumed) ==
    {InitOutcome("instance", EXIT_SUCCESS, TRUE, resumed, TRUE),
     InitOutcome("exit", EXIT_SUBMISSION_ERROR, TRUE, resumed, FALSE),
     InitOutcome("raise", 0, TRUE, resumed, FALSE)}

\* garmin.resume_login(result2, mfa_code): accepted, 429 Too Many Requests,
\* 401/403 or a GarthException, another HTTP or connection error, another
\* exception (lines 160-175)
ResumeLogin ==
    SaveTokens(TRUE) \cup
    {InitOutcome("exit", EXIT_TOO_MANY_MFA, TRUE, TRUE, FALSE),
     InitOutcome("exit", EXIT_MFA_REQUIRED, TRUE, TRUE, FALSE),
     InitOutcome("exit", EXIT_SUBMISSION_ERROR, TRUE, TRUE, FALSE),
     InitOutcome("raise", 0, TRUE, TRUE, FALSE)}

\* garmin.login() with email and password (lines 150-157, 181-188)
CredentialLogin(mfa_code) ==
    SaveTokens(FALSE) \cup
    {InitOutcome("exit", EXIT_SUBMISSION_ERROR, TRUE, FALSE, FALSE),
     InitOutcome("raise", 0, TRUE, FALSE, FALSE)} \cup
    (IF ~Truthy(mfa_code)
     THEN {InitOutcome("exit", EXIT_MFA_REQUIRED, TRUE, FALSE, FALSE)}
     ELSE ResumeLogin)

init_api(email, password, mfa_code) ==
    {InitOutcome("instance", EXIT_SUCCESS, FALSE, FALSE, FALSE),
     InitOutcome("raise", 0, FALSE, FALSE, FALSE)} \cup
    (IF ~Truthy(email) \/ ~Truthy(password)
     THEN {InitOutcome("exit", EXIT_TOKEN_FAILURE, FALSE, FALSE, FALSE)}
     ELSE CredentialLogin(mfa_code))

\* an unexpected exception reported with the code of the subprocess path
InprocessResultUnexpected99(o) ==
    [instance |-> o.kind = "instance",
     code |-> CASE o.kind = "instance" -> 0
                [] o.kind = "exit" -> o.code
                [] OTHER -> 99,
     credLogin |-> o.credLogin, resumed |-> o.resumed, dumped |-> o.dumped]

\* SystemExit caught like any exception: every exit reported as code 1
InprocessResultExitAsError(o) ==
    [instance |-> o.kind = "instance",
     code |-> IF o.kind = "instance" THEN 0 ELSE EXIT_SUBMISSION_ERROR,
     credLogin |-> o.credLogin, resumed |-> o.resumed, dumped |-> o.dumped]

\* (instance or None, code): SystemExit and Exception are both caught
InprocessResult(o) ==
    [instance |-> o.kind = "instance",
     code |-> CASE o.kind = "instance" -> 0
                [] o.kind = "exit" -> o.code
                [] OTHER -> EXIT_SUBMISSION_ERROR,
     credLogin |-> o.credLogin, resumed |-> o.resumed, dumped |-> o.dumped]

init_api_inprocess(email, password, mfa_code) ==
    {InprocessResult(o) : o \in init_api(email, password, mfa_code)}

\* the remote call succeeds or fails; without a record data["weight"] raises
\* and the function returns False before any remote call
add_body_composition_data_non_interactive(data) ==
    IF data = <<>> THEN {[success |-> FALSE, remote |-> FALSE]}
    ELSE {[success |-> TRUE, remote |-> TRUE], [success |-> FALSE, remote |-> TRUE]}

(***************************************************************************)
(* llmfeedback.py.  Texts of the backend are sequences of words.           *)
(***************************************************************************)
Tip == <<"Nice", " ", "LLM:", " ", "work">>

\* None (no API key, no data, an empty or failed generation) or the stripped,
\* non-empty text of the model
get_feedback == {<<>>, <<Tip>>}

\* garminbot.py lines 173-185: the import of llmfeedback raises, or
\* get_feedback returns
FeedbackAttempt ==
    {[raised |-> FALSE, feedback |-> f] : f \in get_feedback}
        \cup {[raised |-> TRUE, feedback |-> <<>>]}

(***************************************************************************)
(* garminbot.py: _run_garmin_script.  "LLM:" is the word the handler       *)
(* searches stdout for.                                                    *)
(***************************************************************************)
\* code, stdout, stderr are what the function returns; the other fields record
\* what it did: the path taken, the number of remote add_body_composition
\* calls, whether tokens were written, and how the feedback call ended
RunResult(code, stdout, stderr, path, remote, dumped, llm) ==
    [code |-> code, stdout |-> stdout, stderr |-> stderr, path |-> path,
     remote |-> remote, dumped |-> dumped, llm |-> llm]

\* a failed feedback call reported as a failed submission
FeedbackResultFailsOnError(f, dumped) ==
    IF f.raised
    THEN RunResult(1, <<>>, <<<<"LLM call failed">>>>, "inprocess", 1, dumped, "raised")
    ELSE IF Truthy(f.feedback)
    THEN RunResult(0, <<<<"Success: Data submitted.", " ", "LLM:", " ">> \o f.feedback[1]>>,
                   <<>>, "inprocess", 1, dumped, "text")
    ELSE RunResult(0, <<<<"Success: Data submitted.">>>>, <<>>, "inprocess", 1,
                   dumped, "none")

\* lines 171-185
FeedbackResult(f, dumped) ==
    IF f.raised
    THEN RunResult(0, <<<<"Success: Data submitted.">>>>, <<<<"LLM call failed">>>>,
                   "inprocess", 1, dumped, "raised")
    ELSE IF Truthy(f.feedback)
    THEN RunResult(0, <<<<"Success: Data submitted.", " ", "LLM:", " ">> \o f.feedback[1]>>,
                   <<>>, "inprocess", 1, dumped, "text")
    ELSE RunResult(0, <<<<"Success: Data submitted.">>>>, <<>>, "inprocess", 1,
                   dumped, "none")

\* lines 162-187, once the module is imported and Config is built
InProcess(data, email, password, mfa_code) ==
    UNION {
        IF ~i.instance
        THEN {RunResult(i.code, <<>>, <<<<"In-process init returned code">>>>,
                        "inprocess", 0, i.dumped, "notcalled")}
        ELSE UNION {
            IF a.success
            THEN {FeedbackResult(f, i.dumped) : f \in FeedbackAttempt}
            ELSE {RunResult(1, <<>>, <<<<"Submission failed (in-process)">>>>,
                            "inprocess", IF a.remote THEN 1 ELSE 0, i.dumped,
                            "notcalled")}
            : a \in add_body_composition_data_non_interactive(data)}
        : i \in init_api_inprocess(email, password, mfa_code)}

\* garminconnectapi.py main(): the exit status and output of the CLI process;
\* a missing or empty argument is not on the command line (lines 215-220)
CliMain(data, email, password, mfa_code) ==
    UNION {
        CASE o.kind = "exit" ->
                {RunResult(o.code, <<<<>>>>,
                           IF o.code = EXIT_TOKEN_FAILURE
                              \/ (o.code = EXIT_MFA_REQUIRED /\ ~o.resumed)
                           THEN <<<<>>>> ELSE <<<<"Error:", "\n">>>>,
                           "subprocess", 0, o.dumped, "notcalled")}
          [] o.kind = "raise" ->
                {RunResult(1, <<<<>>>>, <<<<"Error:", "\n">>>>, "subprocess", 0,
                           o.dumped, "notcalled")}
          [] OTHER ->
                {IF a.success
                 THEN RunResult(EXIT_SUCCESS, <<<<"Success: Data submitted at", "\n">>>>,
                                <<<<>>>>, "subprocess", 1, o.dumped, "notcalled")
                 ELSE RunResult(EXIT_SUBMISSION_ERROR, <<<<>>>>, <<<<"Error:", "\n">>>>,
                                "subprocess", 1, o.dumped, "notcalled")
                 : a \in add_body_composition_data_non_interactive(data)}
        : o \in init_api(IF Truthy(email) THEN email ELSE <<>>,
                         IF Truthy(password) THEN password ELSE <<>>,
                         IF Truthy(mfa_code) THEN mfa_code ELSE <<>>)}

\* the output of the process not captured: stdout and stderr are None
SubprocessUncaptured(data, email, password, mfa_code) ==
    IF data = <<>>
    THEN {RunResult(99, <<>>, <<<<"Subprocess failed">>>>, "subprocess", 0, FALSE,
                    "notcalled")}
    ELSE {RunResult(99, <<>>, <<<<"Subprocess failed">>>>, "subprocess", 0, FALSE,
                    "notcalled"),
          RunResult(0 - 9, <<>>, <<>>, "subprocess", 0, FALSE, "notcalled")}
         \cup {[r EXCEPT !.stdout = <<>>, !.stderr = <<>>] :
                   r \in CliMain(data, email, password, mfa_code)}

\* lines 194-234: the command cannot be built without a record, the process
\* cannot be started, it is killed by a signal, or it runs the CLI
Subprocess(data, email, password, mfa_code) ==
    IF data = <<>>
    THEN {RunResult(99, <<>>, <<<<"Subprocess failed">>>>, "subprocess", 0, FALSE,
                    "notcalled")}
    ELSE {RunResult(99, <<>>, <<<<"Error: Python interpreter or script not found.">>>>,
                    "subprocess", 0, FALSE, "notcalled"),
          RunResult(99, <<>>, <<<<"Subprocess failed">>>>, "subprocess", 0, FALSE,
                    "notcalled"),
          RunResult(0 - 9, <<<<>>>>, <<<<>>>>, "subprocess", 0, FALSE, "notcalled")}
         \cup CliMain(data, email, password, mfa_code)

\* the fallback of the docstring: the subprocess also runs after an
\* in-process attempt that ended with a non-zero code, and submits again
run_garmin_script_with_fallback(data, email, password, mfa_code) ==
    {r \in InProcess(data, email, password, mfa_code) : r.code = 0}
        \cup {[s EXCEPT !.remote = r.remote + s.remote] :
                 r \in {x \in InProcess(data, email, password, mfa_code) : x.code # 0},
                 s \in Subprocess(data, email, password, mfa_code)}
        \cup Subprocess(data, email, password, mfa_code)

\* The in-process attempt runs when the import of garminconnectapi, the
\* hasattr test and Config(user_id) raise nothing; otherwise the subprocess
\* does.  Which of the two happens is the environment's choice.
run_garmin_script(data, email, password, mfa_code) ==
    InProcess(data, email, password, mfa_code)
        \cup Subprocess(data, email, password, mfa_code)

\* exit_code, stdout, stderr as the handler receives them
Returned(r) == [code |-> r.code, stdout |-> r.stdout, stderr |-> r.stderr]

\* The protocol tests only whether its arguments are given and non-empty, so
\* the triples a call can return are evaluated once for every such case.
Arg(given) == IF given THEN <<<<"x">>>> ELSE <<>>

ReturnedBy ==
    [d \in BOOLEAN, e \in BOOLEAN, p \in BOOLEAN, m \in BOOLEAN |->
        {Returned(r) : r \in run_garmin_script(Arg(d), Arg(e), Arg(p), Arg(m))}]

Returns(data, email, password, mfa_code) ==
    ReturnedBy[data # <<>>, Truthy(email), Truthy(password), Truthy(mfa_code)]

\* what a call can have done, evaluated once for every such case
RunsBy ==
    [d \in BOOLEAN, e \in BOOLEAN, p \in BOOLEAN, m \in BOOLEAN |->
        run_garmin_script(Arg(d), Arg(e), Arg(p), Arg(m))]

Runs(data, email, password, mfa_code) ==
    RunsBy[data # <<>>, Truthy(email), Truthy(password), Truthy(mfa_code)]

(***************************************************************************)
(* garminbot.py: process_message                                           *)
(***************************************************************************)
VARIABLES
    user_data,  \* context.user_data of every user
    update,     \* the update handled last: user, text, phase at its start
    call,       \* the _run_garmin_script call made for it, if any
    replies,    \* the reply_text calls made for it, in order
    inbox,      \* the updates that wait for the dispatcher, in arrival order
    tasks,      \* the process_message coroutines in flight
    validation, \* the _validate_and_cast_dispatch call made last, if any
    login       \* the init_api call made last, if any, and how far it has got

vars == <<user_data, update, call, replies, inbox, tasks, validation, login>>

\* the part of the state that only the specification of the dispatcher uses
dispatcher == <<inbox, tasks>>

\* the part of the state that the handler's specification leaves alone
apart == <<dispatcher, validation, login>>

EmptyUserData ==
    [body_data |-> <<>>, expecting_credentials |-> FALSE,
     expecting_mfa |-> FALSE, email |-> <<>>, password |-> <<>>]

\* one dictionary shared by all users
SetUserDataShared(u, ud) == [v \in Users |-> ud]

\* line 253: context.user_data is the dictionary of the update's user, so the
\* handler writes to that user's dictionary only
SetUserData(u, ud) == [user_data EXCEPT ![u] = ud]

\* the branch the handler takes: expecting_mfa is tested first (lines 258, 273)
Phase(ud) ==
    IF ud.expecting_mfa THEN "awaiting_mfa_code"
    ELSE IF ud.expecting_credentials THEN "awaiting_credentials"
    ELSE "idle"

Reply(kind, text, code) == [kind |-> kind, text |-> text, code |-> code]

\* the allow-list test left out
AuthorizedAlways(user_id) == TRUE

\* line 243
Authorized(user_id) == user_id \in ALLOWED_IDS

\* only the flag popped
AfterMfaCallKeepsCredentials(ud) == [ud EXCEPT !.expecting_mfa = FALSE]

\* the credentials popped, the flag left set
AfterMfaCallKeepsFlag(ud) == [ud EXCEPT !.email = <<>>, !.password = <<>>]

\* lines 268-270
AfterMfaCall(ud) ==
    [ud EXCEPT !.expecting_mfa = FALSE, !.email = <<>>, !.password = <<>>]

\* the line-count test off by one
CredentialsMalformedOffByOne(lines) == Len(lines) < 1

\* line 275
CredentialsMalformed(lines) == Len(lines) < 2

\* lines 281-282
StoreCredentials(ud, email, password) ==
    [ud EXCEPT !.email = <<email>>, !.password = <<password>>]

\* the expecting_credentials flag left set after the call
AfterCredentialsCallKeepsFlag(ud) == ud

\* line 290
AfterCredentialsCall(ud) == [ud EXCEPT !.expecting_credentials = FALSE]

\* line 307
StoreBodyData(ud, data) == [ud EXCEPT !.body_data = <<data>>]

\* lines 320-325: the text after the first "LLM:" of stdout, stripped
FeedbackOf(stdout) ==
    IF Truthy(stdout) /\ Find(stdout[1], "LLM:") # 0
    THEN <<Strip(SubSeq(stdout[1], Find(stdout[1], "LLM:") + 1, Len(stdout[1])))>>
    ELSE <<>>

\* the success branch without the pop of body_data
OnSuccessKeepsData(ud, r) ==
    [ud |-> ud,
     replies |-> <<Reply("success", FeedbackOf(r.stdout), 0)>>,
     raised |-> FALSE]

\* lines 317-328
OnSuccess(ud, r) ==
    [ud |-> [ud EXCEPT !.body_data = <<>>],
     replies |-> <<Reply("success", FeedbackOf(r.stdout), 0)>>,
     raised |-> FALSE]

\* the token-failure branch dropping the measurement
OnTokenFailureDropsData(ud, r) ==
    [ud |-> [ud EXCEPT !.expecting_credentials = TRUE, !.body_data = <<>>],
     replies |-> <<Reply("login_required", <<>>, 0)>>,
     raised |-> FALSE]

\* the token-failure branch setting the flag of the MFA branch
OnTokenFailureAsksCode(ud, r) ==
    [ud |-> [ud EXCEPT !.expecting_mfa = TRUE],
     replies |-> <<Reply("login_required", <<>>, 0)>>,
     raised |-> FALSE]

\* lines 332-340
OnTokenFailure(ud, r) ==
    [ud |-> [ud EXCEPT !.expecting_credentials = TRUE],
     replies |-> <<Reply("login_required", <<>>, 0)>>,
     raised |-> FALSE]

\* the MFA branch without its reply
OnMfaRequiredSilent(ud, r) ==
    [ud |-> [ud EXCEPT !.expecting_mfa = TRUE], replies |-> <<>>, raised |-> FALSE]

\* lines 343-349
OnMfaRequired(ud, r) ==
    [ud |-> [ud EXCEPT !.expecting_mfa = TRUE],
     replies |-> <<Reply("mfa_required", <<>>, 0)>>,
     raised |-> FALSE]

\* the rate-limit branch without the pop of body_data
OnTooManyMfaKeepsData(ud, r) ==
    [ud |-> [ud EXCEPT !.expecting_mfa = FALSE, !.email = <<>>, !.password = <<>>],
     replies |-> <<Reply("mfa_limit_exceeded", <<>>, 0)>>,
     raised |-> FALSE]

\* lines 352-362
OnTooManyMfa(ud, r) ==
    [ud |-> [ud EXCEPT !.expecting_mfa = FALSE, !.email = <<>>,
                       !.password = <<>>, !.body_data = <<>>],
     replies |-> <<Reply("mfa_limit_exceeded", <<>>, 0)>>,
     raised |-> FALSE]

\* the failure branch without the pop of body_data
OnOtherErrorKeepsData(ud, r) ==
    LET output == IF Truthy(r.stderr) THEN r.stderr ELSE r.stdout
        stripped == Strip(output[1])
    IN  IF output = <<>>
        THEN [ud |-> ud, replies |-> <<>>, raised |-> TRUE]
        ELSE [ud |-> [ud EXCEPT !.expecting_mfa = FALSE,
                                !.expecting_credentials = FALSE],
              replies |-> <<Reply("submission_failed",
                                  <<IF stripped # <<>> THEN stripped
                                    ELSE <<"Unknown error occurred during submission.">>>>,
                                  r.code)>>,
              raised |-> FALSE]

\* lines 365-370: (stderr or stdout).strip() raises when both are None, before
\* the reply and the pops
OnOtherError(ud, r) ==
    LET output == IF Truthy(r.stderr) THEN r.stderr ELSE r.stdout
        stripped == Strip(output[1])
    IN  IF output = <<>>
        THEN [ud |-> ud, replies |-> <<>>, raised |-> TRUE]
        ELSE [ud |-> [ud EXCEPT !.body_data = <<>>, !.expecting_mfa = FALSE,
                                !.expecting_credentials = FALSE],
              replies |-> <<Reply("submission_failed",
                                  <<IF stripped # <<>> THEN stripped
                                    ELSE <<"Unknown error occurred during submission.">>>>,
                                  r.code)>>,
              raised |-> FALSE]

\* lines 316-370
Route(ud, r) ==
    CASE r.code = 0 -> OnSuccess(ud, r)
      [] r.code = 2 -> OnTokenFailure(ud, r)
      [] r.code = 3 -> OnMfaRequired(ud, r)
      [] r.code = 4 -> OnTooManyMfa(ud, r)
      [] OTHER -> OnOtherError(ud, r)

Handled(u, raw, raised) ==
    [user |-> u, text |-> raw, phase |-> Phase(user_data[u]), raised |-> raised]

\* the arguments of the call and the triple it returned
Call(data, email, password, mfa_code, r) ==
    <<[data |-> data, email |-> email, password |-> password,
       mfa_code |-> mfa_code, returned |-> r]>>

Init ==
    /\ user_data = [u \in Users |-> EmptyUserData]
    /\ update = [user |-> 0, text |-> <<>>, phase |-> "idle", raised |-> FALSE]
    /\ call = <<>>
    /\ replies = <<>>
    /\ inbox = <<>>
    /\ tasks = <<>>
    /\ validation = <<>>
    /\ login = <<>>

\* lines 243-245
Unauthorized(u, raw) ==
    /\ ~Authorized(u)
    /\ UNCHANGED apart
    /\ replies' = <<Reply("not_authorized", <<>>, 0)>>
    /\ update' = Handled(u, raw, FALSE)
    /\ call' = <<>>
    /\ UNCHANGED user_data

\* lines 247-251
NoText(u, raw) ==
    /\ Authorized(u)
    /\ UNCHANGED apart
    /\ StrippedText[raw] = <<>>
    /\ replies' = <<Reply("no_text", <<>>, 0)>>
    /\ update' = Handled(u, raw, FALSE)
    /\ call' = <<>>
    /\ UNCHANGED user_data

\* lines 258-270, then 316-370
MfaCode(u, raw) ==
    LET ud == user_data[u]
        text == StrippedText[raw]
    IN  /\ Authorized(u)
        /\ UNCHANGED apart
        /\ text # <<>>
        /\ ud.expecting_mfa
        /\ \E r \in Returns(ud.body_data, ud.email, ud.password, <<text>>) :
              LET routed == Route(AfterMfaCall(ud), r)
              IN  /\ user_data' = SetUserData(u, routed.ud)
                  /\ replies' = <<Reply("submitting_mfa", <<>>, 0)>> \o routed.replies
                  /\ update' = Handled(u, raw, routed.raised)
                  /\ call' = Call(ud.body_data, ud.email, ud.password, <<text>>, r)

\* lines 273-277
CredentialsRejected(u, raw) ==
    LET ud == user_data[u]
        text == StrippedText[raw]
    IN  /\ Authorized(u)
        /\ UNCHANGED apart
        /\ text # <<>>
        /\ ~ud.expecting_mfa
        /\ ud.expecting_credentials
        /\ CredentialsMalformed(LinesOf[raw])
        /\ replies' = <<Reply("input_error_credentials", <<>>, 0)>>
        /\ update' = Handled(u, raw, FALSE)
        /\ call' = <<>>
        /\ UNCHANGED user_data

\* lines 273-295, then 316-370; lines[1] raises IndexError on a single line
Credentials(u, raw) ==
    LET ud == user_data[u]
        text == StrippedText[raw]
        lines == LinesOf[raw]
    IN  /\ Authorized(u)
        /\ UNCHANGED apart
        /\ text # <<>>
        /\ ~ud.expecting_mfa
        /\ ud.expecting_credentials
        /\ ~CredentialsMalformed(lines)
        /\ IF Len(lines) < 2
           THEN /\ replies' = <<>>
                /\ update' = Handled(u, raw, TRUE)
                /\ call' = <<>>
                /\ UNCHANGED user_data
           ELSE LET email == Strip(lines[1])
                    password == Strip(lines[2])
                    stored == StoreCredentials(ud, email, password)
                IN  \E r \in Returns(ud.body_data, <<email>>, <<password>>, <<>>) :
                       LET routed == Route(AfterCredentialsCall(stored), r)
                           interim ==
                               IF r.code = 0
                               THEN <<Reply("login_successful", <<>>, 0)>>
                               ELSE IF r.code = 3
                               THEN <<Reply("credentials_accepted", <<>>, 0)>>
                               ELSE <<>>
                       IN  /\ user_data' = SetUserData(u, routed.ud)
                           /\ replies' = <<Reply("attempting_login", <<>>, 0)>>
                                         \o interim \o routed.replies
                           /\ update' = Handled(u, raw, routed.raised)
                           /\ call' = Call(ud.body_data, <<email>>, <<password>>, <<>>, r)

\* the return after the validation error left out: the handler goes on to
\* the backend call with the body_data it read at line 255
DataRejectedFallsThrough(u, raw) ==
    LET ud == user_data[u]
        text == StrippedText[raw]
        v == Validated[u][raw]
    IN  /\ Authorized(u)
        /\ UNCHANGED apart
        /\ text # <<>>
        /\ ~ud.expecting_mfa
        /\ ~ud.expecting_credentials
        /\ ~v.ok
        /\ \E r \in Returns(ud.body_data, <<>>, <<>>, <<>>) :
              LET routed == Route(ud, r)
              IN  /\ user_data' = SetUserData(u, routed.ud)
                  /\ replies' = <<Reply("input_validation_error", <<<<v.err>>>>, 0)>>
                                   \o routed.replies
                  /\ update' = Handled(u, raw, routed.raised)
                  /\ call' = Call(ud.body_data, <<>>, <<>>, <<>>, r)

\* lines 298-305
DataRejected(u, raw) ==
    LET ud == user_data[u]
        text == StrippedText[raw]
        v == Validated[u][raw]
    IN  /\ Authorized(u)
        /\ UNCHANGED apart
        /\ text # <<>>
        /\ ~ud.expecting_mfa
        /\ ~ud.expecting_credentials
        /\ ~v.ok
        /\ replies' = <<Reply("input_validation_error", <<<<v.err>>>>, 0)>>
        /\ update' = Handled(u, raw, FALSE)
        /\ call' = <<>>
        /\ UNCHANGED user_data

\* lines 298-310, then 316-370
NewData(u, raw) ==
    LET ud == user_data[u]
        text == StrippedText[raw]
        v == Validated[u][raw]
    IN  /\ Authorized(u)
        /\ UNCHANGED apart
        /\ text # <<>>
        /\ ~ud.expecting_mfa
        /\ ~ud.expecting_credentials
        /\ v.ok
        /\ \E r \in Returns(v.data, <<>>, <<>>, <<>>) :
              LET routed == Route(StoreBodyData(ud, v.data[1]), r)
              IN  /\ user_data' = SetUserData(u, routed.ud)
                  /\ replies' = <<Reply("data_parsed", <<>>, 0)>> \o routed.replies
                  /\ update' = Handled(u, raw, routed.raised)
                  /\ call' = Call(v.data, <<>>, <<>>, <<>>, r)

Next ==
    \E u \in Users, raw \in Texts :
        \/ Unauthorized(u, raw)
        \/ NoText(u, raw)
        \/ CredentialsRejected(u, raw)
        \/ DataRejected(u, raw)
        \/ MfaCode(u, raw)
        \/ Credentials(u, raw)
        \/ NewData(u, raw)

Spec == Init /\ [][Next]_vars

(***************************************************************************)
(* _run_garmin_script on its own: one call with any arguments, on either   *)
(* path.  The call and the full record of what it did are kept in call;    *)
(* the conversation state is not involved.                                 *)
(***************************************************************************)
\* None, the empty string, a text
OptionalTexts(t) == {<<>>, <<<<>>>>, <<t>>}

BackendData == {<<>>, Validated[1][TextOmron].data, Validated[2][TextMiScale].data}

\* lines 162-187
RunInProcess(data, email, password, mfa_code) ==
    /\ \E r \in InProcess(data, email, password, mfa_code) :
          call' = Call(data, email, password, mfa_code, r)
    /\ UNCHANGED <<user_data, update, replies, apart>>

\* lines 189-234
RunSubprocess(data, email, password, mfa_code) ==
    /\ \E r \in Subprocess(data, email, password, mfa_code) :
          call' = Call(data, email, password, mfa_code, r)
    /\ UNCHANGED <<user_data, update, replies, apart>>

BackendNext ==
    \E data \in BackendData, email \in OptionalTexts(Strip(L_mail)),
       password \in OptionalTexts(Strip(L_pw)), mfa_code \in OptionalTexts(L_code) :
        \/ RunInProcess(data, email, password, mfa_code)
        \/ RunSubprocess(data, email, password, mfa_code)

SpecBackend == Init /\ [][BackendNext]_vars

(***************************************************************************)
(* The dispatcher and the handler as a coroutine.  main() builds the        *)
(* Application without concurrent_updates and registers process_message    *)
(* as a blocking handler (lines 383-384), so the Application takes the     *)
(* updates from its queue one by one and awaits the handler of each before *)
(* it takes the next.  process_message suspends at every await of          *)
(* reply_text; _run_garmin_script is an ordinary call and does not         *)
(* suspend.  A step of the handler is the code between two awaits.         *)
(***************************************************************************)
\* the updates that can arrive; an update arrives again only after its
\* handler has returned
DispatchUpdates ==
    {[user |-> 1, text |-> t] :
        t \in {TextOmron, TextCredentials, TextCode, TextLightWeight}}
        \cup {[user |-> 4, text |-> TextCode]}

InSystem ==
    {inbox[i] : i \in DOMAIN inbox}
        \cup {[user |-> tasks[i].user, text |-> tasks[i].text] : i \in DOMAIN tasks}

\* getUpdates returns the updates in the order the users sent them and they
\* are queued in that order (line 390)
Arrive(m) ==
    /\ m \notin InSystem
    /\ inbox' = Append(inbox, m)
    /\ UNCHANGED <<user_data, update, call, replies, tasks, validation, login>>

\* the locals of a coroutine and the await it is suspended at: "return"
\* (lines 244, 250, 276, 304: the handler returns when resumed), "call" (262,
\* 284, 308: the backend call follows), "route" (293, 295: the routing
\* follows), "after_reply" (326, 334, 345, 357, 367: the code after the final
\* reply follows); start is the user's dictionary when the handler was called
Task(m, ud, pc, branch, data, email, password, mfa_code) ==
    [user |-> m.user, text |-> m.text, start |-> ud, pc |-> pc, branch |-> branch,
     data |-> data, email |-> email, password |-> password, mfa_code |-> mfa_code,
     r |-> <<>>]

Returning(m, ud) == [ud |-> ud, task |-> Task(m, ud, "return", "none", <<>>, <<>>, <<>>, <<>>)]

\* lines 239-308: from the call of the handler to its first await
FirstSegment(m, ud) ==
    LET text == StrippedText[m.text]
        lines == LinesOf[m.text]
        v == Validated[m.user][m.text]
    IN  IF ~Authorized(m.user) \/ text = <<>> THEN Returning(m, ud)
        ELSE IF ud.expecting_mfa
        THEN [ud |-> ud,
              task |-> Task(m, ud, "call", "mfa", ud.body_data, ud.email,
                            ud.password, <<text>>)]
        ELSE IF ud.expecting_credentials
        THEN IF CredentialsMalformed(lines) THEN Returning(m, ud)
             ELSE [ud |-> StoreCredentials(ud, Strip(lines[1]), Strip(lines[2])),
                   task |-> Task(m, ud, "call", "credentials", ud.body_data,
                                 <<Strip(lines[1])>>, <<Strip(lines[2])>>, <<>>)]
        ELSE IF ~v.ok THEN Returning(m, ud)
        ELSE [ud |-> StoreBodyData(ud, v.data[1]),
              task |-> Task(m, ud, "call", "data", v.data, <<>>, <<>>, <<>>)]

\* the Application built with concurrent_updates(True)
DispatcherNeverBusy == FALSE

\* lines 383-384: the next update is taken when the handler of the previous
\* one has returned
DispatcherBusy == tasks # <<>>

\* the dispatcher takes the oldest update and calls the handler, which runs
\* to its first await
Dispatch ==
    /\ inbox # <<>>
    /\ ~DispatcherBusy
    /\ \E first \in {FirstSegment(Head(inbox), user_data[Head(inbox).user])} :
          /\ user_data' = SetUserData(Head(inbox).user, first.ud)
          /\ tasks' = Append(tasks, first.task)
    /\ inbox' = Tail(inbox)
    /\ UNCHANGED <<update, call, replies, validation, login>>

\* the routing up to its reply (lines 316-367), routed being Route(ud, r): the
\* branches for the codes 2, 3 and 4 write before their reply (lines 333, 344,
\* 353-356), the others after it; the coroutine suspends at the reply, or
\* ends with the exception of line 366
RoutedTo(t, ud, r, routed) ==
    [ud |-> IF r.code \in {2, 3, 4} THEN routed.ud ELSE ud,
     task |-> IF routed.raised THEN <<>>
              ELSE <<[t EXCEPT !.pc = "after_reply", !.r = <<r>>]>>]

\* the writes of the routing that come after the final reply (lines 327,
\* 368-370), routed being Route(ud, r)
RouteAfterReply(ud, r, routed) == IF r.code \in {2, 3, 4} THEN ud ELSE routed.ud

\* lines 264-270, 286-290: the pops that follow the backend call
AfterCall(t, ud) ==
    CASE t.branch = "mfa" -> AfterMfaCall(ud)
      [] t.branch = "credentials" -> AfterCredentialsCall(ud)
      [] OTHER -> ud

\* the coroutine i replaced by what it has become, or removed
Resumed(i, task) == SubSeq(tasks, 1, i - 1) \o task \o SubSeq(tasks, i + 1, Len(tasks))

\* the position in tasks of the coroutine that handles m
TaskOf(m) == {i \in DOMAIN tasks : tasks[i].user = m.user /\ tasks[i].text = m.text}

\* lines 264-370 up to the next await: the backend call and the pops that
\* follow it, then the interim reply of the credentials branch (lines 292-295)
\* or the routing
CallSegment(m) ==
    \E i \in TaskOf(m) :
        /\ tasks[i].pc = "call"
        /\ \E r \in Returns(tasks[i].data, tasks[i].email, tasks[i].password,
                            tasks[i].mfa_code) :
           \E after \in {AfterCall(tasks[i], user_data[m.user])} :
              IF tasks[i].branch = "credentials" /\ r.code \in {0, 3}
              THEN /\ user_data' = SetUserData(m.user, after)
                   /\ tasks' = Resumed(i, <<[tasks[i] EXCEPT !.pc = "route", !.r = <<r>>]>>)
              ELSE \E to \in {RoutedTo(tasks[i], after, r, Route(after, r))} :
                      /\ user_data' = SetUserData(m.user, to.ud)
                      /\ tasks' = Resumed(i, to.task)
        /\ UNCHANGED <<update, call, replies, inbox, validation, login>>

\* lines 316-367 when resumed after the interim reply
RouteSegment(m) ==
    \E i \in TaskOf(m) :
        /\ tasks[i].pc = "route"
        /\ \E to \in {RoutedTo(tasks[i], user_data[m.user], tasks[i].r[1],
                               Route(user_data[m.user], tasks[i].r[1]))} :
              /\ user_data' = SetUserData(m.user, to.ud)
              /\ tasks' = Resumed(i, to.task)
        /\ UNCHANGED <<update, call, replies, inbox, validation, login>>

\* the handler resumed after its last reply: the pops of lines 327 and
\* 368-370, and the return
LastSegment(m) ==
    \E i \in TaskOf(m) :
        /\ tasks[i].pc \in {"return", "after_reply"}
        /\ IF tasks[i].pc = "return" THEN UNCHANGED user_data
           ELSE user_data' =
                   SetUserData(m.user,
                               RouteAfterReply(user_data[m.user], tasks[i].r[1],
                                               Route(user_data[m.user], tasks[i].r[1])))
        /\ tasks' = Resumed(i, <<>>)
        /\ UNCHANGED <<update, call, replies, inbox, validation, login>>

DispatchNext ==
    \/ \E m \in DispatchUpdates : Arrive(m)
    \/ Dispatch
    \/ \E m \in DispatchUpdates : CallSegment(m)
    \/ \E m \in DispatchUpdates : RouteSegment(m)
    \/ \E m \in DispatchUpdates : LastSegment(m)

SpecDispatch == Init /\ [][DispatchNext]_vars

(***************************************************************************)
(* garminbot.py: _validate_and_cast_dispatch on its own.  The lines are    *)
(* what line 298 hands over: stripped, without comments and blank lines.   *)
(***************************************************************************)
V_70_5 == <<"7", "0", ".", "5">>
V_1_5 == <<"1", ".", "5">>
V_1_005 == <<"1", ".", "0", "0", "5">>
V_1_015 == <<"1", ".", "0", "1", "5">>
V_minus_80 == <<"-", "8", "0">>
V_nan == <<"n", "a", "n">>
V_x == <<"x">>
V_40_3 == <<"4", "0", ".", "3">>
V_15 == <<"1", "5">>
V_5_5 == <<"5", ".", "5">>

\* first line: a weight above 1, at 1, rounded to 1, rounded to 1.01,
\* negative, no number, and what float() accepts but is no weight
WeightLines == {V_70_5, V_1_5, L_1, V_1_005, V_1_015, V_minus_80, V_nan, V_x}

\* fourth line: percent_muscle (OMRON) or percent_hydration (MI_SCALE)
PercentLines == {V_40_3, L_5, V_15, V_nan}

VisceralLines == {L_5, V_5_5}

\* seventh line: muscle_mass (MI_SCALE)
MuscleLines == {L_31_255, L_3_125, V_nan}

ValidatorInputs ==
    {<<w, L_24_1, L_18_2, pc, v>> :
        w \in WeightLines, pc \in PercentLines, v \in VisceralLines}
    \cup {<<w, L_24_1, L_18_2, pc, L_5, L_3_125, m>> :
            w \in WeightLines, pc \in PercentLines, m \in MuscleLines}
    \cup {<<w, L_24_1, L_18_2, V_40_3>> : w \in WeightLines}
    \cup {<<w, L_24_1, L_18_2, V_40_3, L_5, L_3_125>> : w \in WeightLines}

\* lines 130-139, evaluated once for every user and input
ValidatedInput ==
    [u \in Users |-> [l \in ValidatorInputs |-> validate_and_cast_dispatch(u, l)]]

\* lines 298-304: the validator is called with the lines of a message and
\* returns the record or raises
Validate(u, lines) ==
    /\ validation' = <<[user |-> u, lines |-> lines, result |-> ValidatedInput[u][lines]]>>
    /\ UNCHANGED <<user_data, update, call, replies, dispatcher, login>>

ValidateNext == \E u \in Users, lines \in ValidatorInputs : Validate(u, lines)

SpecValidate == Init /\ [][ValidateNext]_vars

(***************************************************************************)
(* garminconnectapi.py: init_api step by step, one step for every call of  *)
(* the Garmin library, and init_api_inprocess around it.  trace lists the  *)
(* library calls made and how each ended.                                  *)
(***************************************************************************)
LibraryCall(name, result) == [call |-> name, result |-> result]

\* the call suspended in login, moved to pc with one more library call
LoginStep(pc, name, result) ==
    <<[login[1] EXCEPT !.pc = pc,
                       !.trace = Append(login[1].trace, LibraryCall(name, result))]>>

Called(trace, name) == \E i \in DOMAIN trace : trace[i].call = name

\* the call ended: sys.exit(code), an exception that init_api does not catch,
\* or the Garmin object returned
LoginEnded(trace, kind, code) ==
    <<[login[1] EXCEPT
          !.pc = "ended",
          !.trace = trace,
          !.outcome = <<InitOutcome(kind, code,
                                    Called(trace, "credential_login"),
                                    Called(trace, "resume_login"),
                                    \E i \in DOMAIN trace :
                                        trace[i] = LibraryCall("dump", "ok"))>>]>>

LoginArguments ==
    {[email |-> e, password |-> p, mfa_code |-> m] :
        e \in {<<>>, <<<<>>>>, <<Strip(L_mail)>>},
        p \in {<<>>, <<<<>>>>, <<Strip(L_pw)>>},
        m \in {<<>>, <<<<>>>>, <<L_code>>}}

\* init_api is called (by init_api_inprocess, line 201)
CallInitApi(a) ==
    /\ IF login = <<>> THEN TRUE ELSE login[1].pc = "returned"
    /\ login' = <<[pc |-> "token", email |-> a.email, password |-> a.password,
                   mfa_code |-> a.mfa_code, trace |-> <<>>, outcome |-> <<>>,
                   returned |-> <<>>]>>
    /\ UNCHANGED <<user_data, update, call, replies, dispatcher, validation>>

\* lines 137-143: garmin.login(tokenstore) returns, raises one of the four
\* exceptions that are caught, or raises another one
TryTokenLogin ==
    /\ login # <<>>
    /\ login[1].pc = "token"
    /\ \E result \in {"ok", "caught", "other"} :
          LET trace == Append(login[1].trace, LibraryCall("token_login", result))
          IN  login' = CASE result = "ok" -> LoginEnded(trace, "instance", EXIT_SUCCESS)
                         [] result = "caught" -> LoginStep("credentials", "token_login", result)
                         [] OTHER -> LoginEnded(trace, "raise", 0)
    /\ UNCHANGED <<user_data, update, call, replies, dispatcher, validation>>

\* the test of lines 146-147 left out: the credential login is always tried
RequireCredentialsNever ==
    /\ login # <<>>
    /\ login[1].pc = "credentials"
    /\ login' = <<[login[1] EXCEPT !.pc = "credential_login"]>>
    /\ UNCHANGED <<user_data, update, call, replies, dispatcher, validation>>

\* lines 146-147
RequireCredentials ==
    /\ login # <<>>
    /\ login[1].pc = "credentials"
    /\ login' = IF ~Truthy(login[1].email) \/ ~Truthy(login[1].password)
                THEN LoginEnded(login[1].trace, "exit", EXIT_TOKEN_FAILURE)
                ELSE <<[login[1] EXCEPT !.pc = "credential_login"]>>
    /\ UNCHANGED <<user_data, update, call, replies, dispatcher, validation>>

\* lines 150-157 and 181-188: garmin.login() with email and password returns
\* with or without an MFA challenge, raises an exception of the two except
\* clauses, or raises another one
TryCredentialLogin ==
    /\ login # <<>>
    /\ login[1].pc = "credential_login"
    /\ \E result \in {"ok", "needs_mfa", "caught", "other"} :
          LET trace == Append(login[1].trace, LibraryCall("credential_login", result))
          IN  login' =
                 CASE result = "ok" -> LoginStep("dump", "credential_login", result)
                   [] result = "needs_mfa" ->
                        IF ~Truthy(login[1].mfa_code)
                        THEN LoginEnded(trace, "exit", EXIT_MFA_REQUIRED)
                        ELSE LoginStep("resume_login", "credential_login", result)
                   [] result = "caught" -> LoginEnded(trace, "exit", EXIT_SUBMISSION_ERROR)
                   [] OTHER -> LoginEnded(trace, "raise", 0)
    /\ UNCHANGED <<user_data, update, call, replies, dispatcher, validation>>

\* lines 160-175 and 181-188: garmin.resume_login(result2, mfa_code)
TryResumeLogin ==
    /\ login # <<>>
    /\ login[1].pc = "resume_login"
    /\ \E result \in {"ok", "http_429", "http_401_403", "http_other",
                      "garth_exception", "caught", "other"} :
          LET trace == Append(login[1].trace, LibraryCall("resume_login", result))
          IN  login' =
                 CASE result = "ok" -> LoginStep("dump", "resume_login", result)
                   [] result = "http_429" -> LoginEnded(trace, "exit", EXIT_TOO_MANY_MFA)
                   [] result \in {"http_401_403", "garth_exception"} ->
                        LoginEnded(trace, "exit", EXIT_MFA_REQUIRED)
                   [] result \in {"http_other", "caught"} ->
                        LoginEnded(trace, "exit", EXIT_SUBMISSION_ERROR)
                   [] OTHER -> LoginEnded(trace, "raise", 0)
    /\ UNCHANGED <<user_data, update, call, replies, dispatcher, validation>>

\* lines 178-188: garmin.garth.dump(tokenstore)
DumpTokens ==
    /\ login # <<>>
    /\ login[1].pc = "dump"
    /\ \E result \in {"ok", "caught", "other"} :
          LET trace == Append(login[1].trace, LibraryCall("dump", result))
          IN  login' = CASE result = "ok" -> LoginEnded(trace, "instance", EXIT_SUCCESS)
                         [] result = "caught" ->
                              LoginEnded(trace, "exit", EXIT_SUBMISSION_ERROR)
                         [] OTHER -> LoginEnded(trace, "raise", 0)
    /\ UNCHANGED <<user_data, update, call, replies, dispatcher, validation>>

\* lines 200-212: init_api_inprocess returns its pair
ReturnInProcess ==
    /\ login # <<>>
    /\ login[1].pc = "ended"
    /\ login' = <<[login[1] EXCEPT !.pc = "returned",
                                   !.returned = <<InprocessResult(login[1].outcome[1])>>]>>
    /\ UNCHANGED <<user_data, update, call, replies, dispatcher, validation>>

LoginNext ==
    \/ \E a \in LoginArguments : CallInitApi(a)
    \/ TryTokenLogin
    \/ RequireCredentials
    \/ TryCredentialLogin
    \/ TryResumeLogin
    \/ DumpTokens
    \/ ReturnInProcess

SpecLogin == Init /\ [][LoginNext]_vars

(***************************************************************************)
(* Properties                                                              *)
(***************************************************************************)
\* the result-code classes of the routing (lines 316-365): every code other
\* than 0, 2, 3, 4 takes the "EXIT_SUBMISSION_ERROR = 1 or other errors" branch
ResultClass(code) ==
    CASE code = 0 -> "success"
      [] code = 2 -> "token_invalid"
      [] code = 3 -> "mfa_required"
      [] code = 4 -> "mfa_limit_exceeded"
      [] OTHER -> "submission_error"

Terminal(code) ==
    ResultClass(code) \in {"success", "submission_error", "mfa_limit_exceeded"}

LastReply == replies[Len(replies)]

LineCount(raw) == Len(LinesOf[raw])

\* C1: whenever expecting_credentials or expecting_mfa is set for a user, a
\* body_data record is stored for that user.
C1_PendingMeasurementStored ==
    \A u \in Users :
        (user_data[u].expecting_credentials \/ user_data[u].expecting_mfa)
            => user_data[u].body_data # <<>>

C1_Witness ==
    \E u \in Users :
        /\ update.user = u
        /\ update.phase = "awaiting_credentials"
        /\ call # <<>>
        /\ user_data[u].expecting_mfa
        /\ user_data[u].body_data # <<>>

\* C2: the record stored when a user leaves idle is the one validated from
\* that message, and while the user is not idle a step changes body_data only
\* by clearing it after a backend call of that user that returned a terminal
\* result code (success, submission_error, mfa_limit_exceeded).
C2_MeasurementUnchangedUntilTerminal ==
    [][\A u \in Users :
          /\ (Phase(user_data[u]) = "idle" /\ Phase(user_data'[u]) # "idle")
                => /\ update'.user = u
                   /\ Validated[u][update'.text].ok
                   /\ user_data'[u].body_data = Validated[u][update'.text].data
          /\ (Phase(user_data[u]) # "idle"
                /\ user_data'[u].body_data # user_data[u].body_data)
                => /\ update'.user = u
                   /\ call' # <<>>
                   /\ Terminal(call'[1].returned.code)
                   /\ user_data'[u].body_data = <<>>]_vars

C2_Witness ==
    \E u \in Users :
        /\ update.user = u
        /\ update.phase = "awaiting_mfa_code"
        /\ call # <<>>
        /\ call[1].returned.code = 2
        /\ Phase(user_data[u]) = "awaiting_credentials"
        /\ user_data[u].body_data = call[1].data
        /\ call[1].data # <<>>

\* C3: after a backend call that returned a terminal result code no email and
\* no password is stored for that user, and none is stored while a user is
\* idle.
C3_CredentialsClearedOnTerminal ==
    \A u \in Users :
        /\ (call # <<>> /\ update.user = u /\ Terminal(call[1].returned.code))
              => (user_data[u].email = <<>> /\ user_data[u].password = <<>>)
        /\ Phase(user_data[u]) = "idle"
              => (user_data[u].email = <<>> /\ user_data[u].password = <<>>)

\* C4: after a backend call that returned mfa_required the user is in phase
\* awaiting_mfa_code and still holds the measurement, the email and the
\* password the call was made with.
C4_MfaRequiredRetainsAll ==
    \A u \in Users :
        (call # <<>> /\ update.user = u /\ call[1].returned.code = 3)
            => /\ Phase(user_data[u]) = "awaiting_mfa_code"
               /\ user_data[u].body_data = call[1].data
               /\ user_data[u].email = call[1].email
               /\ user_data[u].password = call[1].password

\* C5: a message of a user outside the allow-list changes no user's
\* conversation state and makes no backend call; the denial is its only reply.
C5_UnauthorizedChangesNothing ==
    [][update'.user \notin ALLOWED_IDS
          => /\ user_data' = user_data
             /\ call' = <<>>
             /\ replies' = <<Reply("not_authorized", <<>>, 0)>>]_vars

C5_Witness ==
    /\ update.user \in Users \ ALLOWED_IDS
    /\ update.text = TextMiScale
    /\ replies = <<Reply("not_authorized", <<>>, 0)>>
    /\ \E v \in Users : Phase(user_data[v]) = "awaiting_mfa_code"

\* the outcome of a message that is rejected in its phase: no backend call, no
\* change of any conversation state, and the given reply as the only one
RejectedWith(kind) ==
    /\ call' = <<>>
    /\ user_data' = user_data
    /\ replies' = <<Reply(kind, <<>>, 0)>>

C7_MultiLineCodeRejected ==
    [][(update'.phase = "awaiting_mfa_code" /\ LineCount(update'.text) > 1)
          => RejectedWith("mfa_required")]_vars

\* C8: after a backend call that returned mfa_limit_exceeded nothing is
\* retained for the user (no measurement, no email, no password, no phase
\* flag) and the last reply reports the rate limit.
C8_MfaLimitClearsAll ==
    (call # <<>> /\ call[1].returned.code = 4)
        => /\ user_data[update.user] = EmptyUserData
           /\ LastReply.kind = "mfa_limit_exceeded"

C8_Witness ==
    /\ call # <<>>
    /\ call[1].returned.code = 4
    /\ call[1].data # <<>>
    /\ Truthy(call[1].email)
    /\ user_data[update.user].body_data = <<>>

\* C9: after a backend call that returned success the measurement is cleared
\* and neither phase flag is set; the success reply carries the feedback text
\* when the backend returned one and no feedback text otherwise.
C9_SuccessClearsMeasurement ==
    (call # <<>> /\ call[1].returned.code = 0)
        => /\ user_data[update.user].body_data = <<>>
           /\ ~user_data[update.user].expecting_credentials
           /\ ~user_data[update.user].expecting_mfa
           /\ LastReply.kind = "success"
           /\ LastReply.text =
                 IF call[1].returned.stdout
                        = <<<<"Success: Data submitted.", " ", "LLM:", " ">> \o Tip>>
                 THEN <<Tip>>
                 ELSE <<>>

C9_Witness ==
    /\ call # <<>>
    /\ call[1].returned.code = 0
    /\ update.phase = "awaiting_mfa_code"
    /\ LastReply.text = <<Tip>>
    /\ user_data[update.user].body_data = <<>>

\* C10: after a backend call that returned a code other than 0, 2, 3 and 4
\* the measurement and both phase flags are cleared, and the last reply
\* reports the failure with that code and the text the backend returned.
C10_OtherCodeClearsAndReports ==
    (call # <<>> /\ call[1].returned.code \notin {0, 2, 3, 4})
        => /\ user_data[update.user].body_data = <<>>
           /\ ~user_data[update.user].expecting_credentials
           /\ ~user_data[update.user].expecting_mfa
           /\ LastReply.kind = "submission_failed"
           /\ LastReply.code = call[1].returned.code
           /\ Truthy(call[1].returned.stderr)
                 => LastReply.text = <<Strip(call[1].returned.stderr[1])>>

C10_Witness ==
    /\ call # <<>>
    /\ call[1].returned.code = 99
    /\ update.phase = "awaiting_credentials"
    /\ call[1].data # <<>>
    /\ user_data[update.user].body_data = <<>>

\* C11: after a backend call that returned token_invalid, made in any phase,
\* the user is in phase awaiting_credentials (expecting_mfa is not set), still
\* holds the measurement the call was made with, and the last reply asks for
\* the email and the password.
C11_TokenInvalidAsksCredentials ==
    (call # <<>> /\ call[1].returned.code = 2)
        => /\ Phase(user_data[update.user]) = "awaiting_credentials"
           /\ ~user_data[update.user].expecting_mfa
           /\ call[1].data # <<>>
           /\ user_data[update.user].body_data = call[1].data
           /\ LastReply.kind = "login_required"

C11_Witness ==
    /\ call # <<>>
    /\ call[1].returned.code = 2
    /\ update.phase = "awaiting_credentials"
    /\ Phase(user_data[update.user]) = "awaiting_credentials"
    /\ user_data[update.user].body_data # <<>>
    /\ LastReply.kind = "login_required"

\* C12: a backend call made in phase awaiting_mfa_code carries the stored
\* measurement, the stored email and password (both present) and the stripped
\* message text as the code; a backend call made in phase awaiting_credentials
\* carries the stored measurement and the first two lines of the message as
\* email and password.
C12_CallsCarryStoredInputs ==
    [][call' # <<>> =>
          LET ud == user_data[update'.user]
              lines == LinesOf[update'.text]
          IN  /\ update'.phase = "awaiting_mfa_code"
                    => /\ ud.body_data # <<>>
                       /\ call'[1].data = ud.body_data
                       /\ ud.email # <<>>
                       /\ call'[1].email = ud.email
                       /\ ud.password # <<>>
                       /\ call'[1].password = ud.password
                       /\ call'[1].mfa_code = <<StrippedText[update'.text]>>
              /\ update'.phase = "awaiting_credentials"
                    => /\ ud.body_data # <<>>
                       /\ call'[1].data = ud.body_data
                       /\ call'[1].email = <<Strip(lines[1])>>
                       /\ call'[1].password = <<Strip(lines[2])>>]_vars

\* C13: a message with text handled in phase awaiting_mfa_code makes one
\* backend call with the stored email and password, and afterwards, whatever
\* the call returned, no email and no password is stored for the user.
C13_MfaAttemptConsumesCredentials ==
    [][(update'.phase = "awaiting_mfa_code" /\ StrippedText[update'.text] # <<>>)
          => /\ call' # <<>>
             /\ call'[1].email = user_data[update'.user].email
             /\ call'[1].password = user_data[update'.user].password
             /\ user_data'[update'.user].email = <<>>
             /\ user_data'[update'.user].password = <<>>]_vars

C13_Witness ==
    /\ update.phase = "awaiting_mfa_code"
    /\ call # <<>>
    /\ Truthy(call[1].email)
    /\ Truthy(call[1].password)
    /\ call[1].returned.code = 3
    /\ user_data[update.user].email = <<>>
    /\ user_data[update.user].password = <<>>

\* the reply that reports the outcome of a backend call
OutcomeKind(code) ==
    CASE code = 0 -> "success"
      [] code = 2 -> "login_required"
      [] code = 3 -> "mfa_required"
      [] code = 4 -> "mfa_limit_exceeded"
      [] OTHER -> "submission_failed"

\* the reply sent before the backend call of a phase
ProgressKind(phase) ==
    CASE phase = "awaiting_mfa_code" -> "submitting_mfa"
      [] phase = "awaiting_credentials" -> "attempting_login"
      [] OTHER -> "data_parsed"

\* C14 as stated: every handled message is answered by exactly one reply.
C14_ExactlyOneReply ==
    update.user # 0 => Len(replies) = 1

\* C14 amended: a message that makes no backend call is answered by exactly
\* one reply; a message that makes a backend call is answered by the progress
\* reply of its phase, then, in phase awaiting_credentials after a result of
\* success or mfa_required, by one interim reply, and last by exactly one
\* reply that reports the result.
C14_RepliesPerMessage ==
    update.user # 0 =>
        /\ call = <<>> => Len(replies) = 1
        /\ call # <<>> =>
              LET code == call[1].returned.code
                  interim == update.phase = "awaiting_credentials" /\ code \in {0, 3}
              IN  /\ Len(replies) = IF interim THEN 3 ELSE 2
                  /\ replies[1].kind = ProgressKind(update.phase)
                  /\ interim => replies[2].kind =
                        IF code = 0 THEN "login_successful" ELSE "credentials_accepted"
                  /\ LastReply.kind = OutcomeKind(code)

C14_Witness ==
    /\ call # <<>>
    /\ update.phase = "awaiting_credentials"
    /\ call[1].returned.code = 3
    /\ Len(replies) = 3
    /\ LastReply.kind = "mfa_required"

FiveCodes ==
    {EXIT_SUCCESS, EXIT_SUBMISSION_ERROR, EXIT_TOKEN_FAILURE, EXIT_MFA_REQUIRED,
     EXIT_TOO_MANY_MFA}

\* C15 as stated: the code _run_garmin_script returns is one of 0, 1, 2, 3, 4
\* on the in-process path and on the subprocess path.
C15_ResultCodeOneOfFive ==
    call # <<>> => call[1].returned.code \in FiveCodes

\* C15 amended: on the in-process path the code is one of the five; on the
\* subprocess path it is one of the five, or 99 with no stdout and a
\* diagnostic in stderr (the process was not run), or the negative status of
\* a process that a signal ended, which comes with the captured output.
C15_ResultCodeByPath ==
    call # <<>> =>
        LET r == call[1].returned
        IN  /\ r.path = "inprocess" => r.code \in FiveCodes
            /\ r.path = "subprocess" =>
                  \/ r.code \in FiveCodes /\ r.stdout # <<>> /\ r.stderr # <<>>
                  \/ r.code = 99 /\ r.stdout = <<>> /\ Truthy(r.stderr)
                  \/ r.code < 0 /\ r.stdout # <<>> /\ r.stderr # <<>>

C15_Witness ==
    /\ call # <<>>
    /\ call[1].data # <<>>
    /\ call[1].returned.path = "subprocess"
    /\ call[1].returned.code = 99
    /\ Truthy(call[1].returned.stderr)

\* what the handler receives when the submission succeeded and the feedback
\* call raised or returned nothing
FeedbackFailed(returned) ==
    \E f \in FeedbackAttempt, dumped \in BOOLEAN :
        /\ ~Truthy(f.feedback)
        /\ returned = Returned(FeedbackResult(f, dumped))

\* C16: when the submission succeeded and the feedback call raised or
\* returned nothing, the call returns success, the measurement is cleared, the
\* user is idle, and the replies are those of a success without feedback: no
\* reply carries a text.
C16_FeedbackFailureAbsorbed ==
    (call # <<>> /\ FeedbackFailed(call[1].returned))
        => /\ call[1].returned.code = EXIT_SUCCESS
           /\ user_data[update.user].body_data = <<>>
           /\ Phase(user_data[update.user]) = "idle"
           /\ LastReply = Reply("success", <<>>, 0)
           /\ \A i \in 1..Len(replies) : replies[i].text = <<>>

C16_Witness ==
    /\ call # <<>>
    /\ call[1].returned.stderr = <<<<"LLM call failed">>>>
    /\ call[1].returned.code = EXIT_SUCCESS
    /\ call[1].data # <<>>
    /\ user_data[update.user].body_data = <<>>
    /\ LastReply = Reply("success", <<>>, 0)

\* C17: handling a message never ends in an exception: whatever the phase,
\* the text and the backend outcome, the handler runs to its end, at least one
\* reply is sent, the last reply is the rejection of the message or the report
\* of the backend result, and the user is left in one of the three phases
\* with a measurement stored exactly when the phase is not idle.
C17_NoExceptionEscapes ==
    update.user # 0 =>
        /\ ~update.raised
        /\ replies # <<>>
        /\ LastReply.kind =
              IF call # <<>> THEN OutcomeKind(call[1].returned.code)
              ELSE IF update.user \notin ALLOWED_IDS THEN "not_authorized"
              ELSE IF StrippedText[update.text] = <<>> THEN "no_text"
              ELSE IF update.phase = "awaiting_credentials"
              THEN "input_error_credentials"
              ELSE "input_validation_error"
        /\ \A u \in Users :
              /\ ~(user_data[u].expecting_mfa /\ user_data[u].expecting_credentials)
              /\ (Phase(user_data[u]) # "idle") = (user_data[u].body_data # <<>>)

\* a backend result without any diagnostic text, and a validation error
C17_Witness ==
    /\ call # <<>>
    /\ call[1].returned.code \notin FiveCodes
    /\ ~Truthy(call[1].returned.stderr)
    /\ ~Truthy(call[1].returned.stdout)
    /\ ~update.raised
    /\ LastReply.text = <<<<"Unknown error occurred during submission.">>>>
    /\ Phase(user_data[update.user]) = "idle"

\* C18: handling a message of one user leaves the flags, the measurement, the
\* email and the password of every other user as they were.
C18_StatePartitionedPerUser ==
    [][\A v \in Users : v # update'.user => user_data'[v] = user_data[v]]_vars

\* a user's message has been routed to the end of the conversation while
\* another user is in the middle of one
C18_Witness ==
    \E v \in Users :
        /\ v # update.user
        /\ call # <<>>
        /\ update.phase = "awaiting_mfa_code"
        /\ call[1].returned.code = EXIT_TOO_MANY_MFA
        /\ user_data[update.user] = EmptyUserData
        /\ Phase(user_data[v]) = "awaiting_mfa_code"
        /\ user_data[v].body_data # <<>>
        /\ Truthy(user_data[v].email)

\* what the handler has stored before its backend call (lines 281-282, 307)
StoredByTask(t) ==
    CASE t.branch = "data" -> StoreBodyData(t.start, t.data[1])
      [] t.branch = "credentials" -> StoreCredentials(t.start, t.email[1], t.password[1])
      [] OTHER -> t.start

\* the dictionaries the handler of t leaves when nothing else runs between
\* its call and its return
UninterruptedResults(t) ==
    IF t.pc = "return" THEN {t.start}
    ELSE {Route(AfterCall(t, StoredByTask(t)), r).ud :
             r \in IF t.r # <<>> THEN {t.r[1]}
                   ELSE Returns(t.data, t.email, t.password, t.mfa_code)}

C20_InvalidDataNoAdvance ==
    [][LET u == update'.user
           v == Validated[u][update'.text]
       IN  (/\ u \in ALLOWED_IDS
            /\ update'.phase = "idle"
            /\ StrippedText[update'.text] # <<>>
            /\ ~v.ok)
               => /\ call' = <<>>
                  /\ user_data' = user_data
                  /\ Phase(user_data'[u]) = "idle"
                  /\ user_data'[u].body_data = <<>>
                  /\ replies' = <<Reply("input_validation_error", <<<<v.err>>>>, 0)>>]_vars

C20_Witness ==
    /\ update.phase = "idle"
    /\ update.text = TextLightWeight
    /\ call = <<>>
    /\ replies \in {<<Reply("input_validation_error", <<<<e>>>>, 0)>> :
                       e \in {"weight_must_be_gt_1", "el_peso_debe_ser_gt_1"}}
    /\ Phase(user_data[update.user]) = "idle"
    /\ user_data[update.user].body_data = <<>>
    /\ \E v \in Users : Phase(user_data[v]) # "idle"

\* round(weight * percent / 100, 2) as the claim writes it: the product
\* first, then the division.  Of the ties drawn, the double of this quotient
\* lies above the tie for the pairs listed and below it for the others.
QuotientAboveTie == {<<1500, 15000>>}

RoundedProductOverHundred(weight, percent) ==
    IF weight.nan \/ percent.nan THEN NaN
    ELSE LET n == (weight.m \div 10) * percent.m
         IN  IF n >= 0 /\ n % 100000 = 50000
             THEN Float(((n \div 100000)
                            + IF <<weight.m, percent.m>> \in QuotientAboveTie
                              THEN 1 ELSE 0) * 10)
             ELSE Float(RoundDivSigned(n, 100000) * 10)

\* y is x to two decimals: a whole number of hundredths at most half a
\* hundredth from x
ToTwoDecimals(y, x) ==
    IF x.nan THEN y.nan
    ELSE /\ ~y.nan
         /\ y.m % 10 = 0
         /\ y.m - x.m <= 5
         /\ x.m - y.m <= 5

\* y is weight * percent / 100 to two decimals: a whole number of hundredths
\* at most half a hundredth from the exact product
ProductToTwoDecimals(y, weight, percent) ==
    IF weight.nan \/ percent.nan THEN y.nan
    ELSE LET n == (weight.m \div 10) * percent.m
         IN  /\ ~y.nan
             /\ y.m % 10 = 0
             /\ (y.m \div 10) * 100000 - n <= 50000
             /\ n - (y.m \div 10) * 100000 <= 50000

\* the 7th value alone decides muscle_mass under MI_SCALE
SeventhValueDecides(v) ==
    \A other \in ValidatorInputs :
        (/\ Len(other) >= 7
         /\ other[7] = v.lines[7]
         /\ ValidatedInput[v.user][other].ok)
            => ValidatedInput[v.user][other].data[1].muscle_mass
                  = v.result.data[1].muscle_mass

\* C21 as stated: for every valid input, muscle_mass under OMRON equals
\* round(weight * percent_muscle / 100, 2) with the record's weight, and under
\* MI_SCALE it is the 7th value rounded to two decimals whatever the weight.
C21_MuscleMassByProduct ==
    \A i \in DOMAIN validation :
        LET v == validation[i]
            d == v.result.data[1]
        IN  v.result.ok
               => /\ get_user_profile_key(v.user) = "OMRON"
                     => d.muscle_mass
                           = RoundedProductOverHundred(d.weight, d.percent_muscle)
                  /\ get_user_profile_key(v.user) = "MI_SCALE"
                     => /\ ToTwoDecimals(d.muscle_mass, ParseFloat(v.lines[7]).val)
                        /\ SeventhValueDecides(v)

\* C21 (amended): for every valid input, muscle_mass under OMRON is the
\* record's weight times percent_muscle / 100 to two decimals, a tie of the
\* third decimal falling to either side (the code rounds the double
\* weight * (percent_muscle / 100.0)), and nan when either is nan; under
\* MI_SCALE it is the 7th value to two decimals whatever the weight.
C21_MuscleMassByProfile ==
    \A i \in DOMAIN validation :
        LET v == validation[i]
            d == v.result.data[1]
        IN  v.result.ok
               => /\ get_user_profile_key(v.user) = "OMRON"
                     => ProductToTwoDecimals(d.muscle_mass, d.weight, d.percent_muscle)
                  /\ get_user_profile_key(v.user) = "MI_SCALE"
                     => /\ ToTwoDecimals(d.muscle_mass, ParseFloat(v.lines[7]).val)
                        /\ SeventhValueDecides(v)

\* a valid OMRON input whose product 70.5 * 5 / 100 = 3.525 is a tie
C21_Witness ==
    \E i \in DOMAIN validation :
        LET v == validation[i]
        IN  /\ v.user = 1
            /\ v.lines = <<V_70_5, L_24_1, L_18_2, L_5, L_5>>
            /\ v.result.ok
            /\ v.result.data[1].weight = Float(70500)
            /\ v.result.data[1].muscle_mass = Float(3530)

\* C22: under both profiles an input whose weight is less than or equal to 1
\* fails validation whatever the other fields are, and so every record the
\* validator returns (which the handler stores at line 307 and passes to the
\* backend) has a weight greater than 1.
C22_WeightAboveOne ==
    \A i \in DOMAIN validation :
        LET v == validation[i]
            w == ParseFloat(v.lines[1])
        IN  /\ (w.ok /\ LeOne(w.val)) => ~v.result.ok
            /\ v.result.ok
                  => /\ ~v.result.data[1].weight.nan
                     /\ v.result.data[1].weight.m > Scale

\* the errors the validators of the two profiles report for malformed input
MalformedInputErrors ==
    {"expected_5_lines", "se_esperan_7_valores", "could_not_convert",
     "weight_must_be_gt_1", "el_peso_debe_ser_gt_1"}

\* the lines of every text validated under OMRON
ValidatedOmron ==
    [t \in Texts |-> validate_omron_profile(MeasurementLines(LinesOf[t]))]

\* C23: a message with text in phase idle from a user whose profile key is
\* no known profile is rejected whatever the text, with the unknown-profile
\* error, which no user with a known profile gets for malformed input, and
\* without a backend call or a change of state; a user without a mapping is
\* validated under the default profile: the text is accepted when its lines
\* are valid under OMRON, and the record of that validator goes to the
\* backend.
C23_UnknownProfileRejected ==
    [][LET u == update'.user
           raw == update'.text
           omron == ValidatedOmron[raw]
           rejected(err) ==
               replies' = <<Reply("input_validation_error", <<<<err>>>>, 0)>>
       IN  (/\ u \in ALLOWED_IDS
            /\ update'.phase = "idle"
            /\ StrippedText[raw] # <<>>)
               => /\ (u \in DOMAIN USER_PROFILES
                         /\ USER_PROFILES[u] \notin {"OMRON", "MI_SCALE"})
                        => /\ rejected("unknown_profile_key")
                           /\ "unknown_profile_key" \notin MalformedInputErrors
                           /\ call' = <<>>
                           /\ user_data' = user_data
                  /\ (u \in DOMAIN USER_PROFILES
                         /\ USER_PROFILES[u] \in {"OMRON", "MI_SCALE"})
                        => \/ call' # <<>>
                           \/ \E err \in MalformedInputErrors : rejected(err)
                  /\ u \notin DOMAIN USER_PROFILES
                        => IF omron.ok
                           THEN /\ call' # <<>>
                                /\ call'[1].data = omron.data
                           ELSE /\ call' = <<>>
                                /\ rejected(omron.err)]_vars

\* user 3, mapped to the key FOO, sends a text that is valid under OMRON
\* while user 1, who has no mapping, is in the middle of a conversation
C23_Witness ==
    /\ update.user = 3
    /\ update.phase = "idle"
    /\ update.text = TextOmron
    /\ replies = <<Reply("input_validation_error", <<<<"unknown_profile_key">>>>, 0)>>
    /\ call = <<>>
    /\ user_data[3] = EmptyUserData
    /\ user_data[1].body_data = Validated[1][TextOmron].data
    /\ Phase(user_data[1]) # "idle"

\* the exit status of the CLI process for an outcome of init_api that is no
\* Garmin object: the code given to sys.exit, and 1 for an exception that
\* nothing catches
CliExitStatus(o) == IF o.kind = "exit" THEN o.code ELSE 1

\* C24: whatever init_api does (it returns the Garmin object, exits with
\* code 1, 2, 3 or 4, or raises an exception it does not catch),
\* init_api_inprocess returns a pair: (instance, 0) when the object was
\* returned, else (None, code) with the code the CLI process would have
\* exited with, which is submission_error for an unexpected exception.
C24_InprocessReturnsPair ==
    \A i \in DOMAIN login :
        login[i].pc = "returned"
           => LET o == login[i].outcome[1]
                  ret == login[i].returned[1]
              IN  /\ o.kind \in {"instance", "exit", "raise"}
                  /\ o.kind = "exit" => o.code \in {1, 2, 3, 4}
                  /\ IF o.kind = "instance"
                     THEN ret.instance /\ ret.code = 0
                     ELSE /\ ~ret.instance
                          /\ ret.code \in {1, 2, 3, 4}
                          /\ ret.code = CliExitStatus(o)
                  /\ o.kind = "raise" => ret.code = EXIT_SUBMISSION_ERROR

\* resume_login answered 429 and init_api_inprocess returned (None, 4)
C24_Witness ==
    /\ login # <<>>
    /\ login[1].pc = "returned"
    /\ login[1].trace[Len(login[1].trace)] = LibraryCall("resume_login", "http_429")
    /\ login[1].outcome[1].kind = "exit"
    /\ ~login[1].returned[1].instance
    /\ login[1].returned[1].code = EXIT_TOO_MANY_MFA

\* C25: the in-process submission is attempted first and the subprocess runs
\* whenever the attempt goes wrong (an import error, an unexpected exception
\* or a non-zero result): what a call returns is the success of the
\* in-process attempt or else the result of the subprocess.
C25_FallbackOnAnyFailure ==
    \A i \in DOMAIN call :
        call[i].returned.path = "inprocess" => call[i].returned.code = 0

\* what the login order of init_api requires of a call l whose token login
\* counts as failed when its result is in failed
LoginOrder(l, failed) ==
    LET t == l.trace
        ended == l.outcome # <<>>
        missing == ~Truthy(l.email) \/ ~Truthy(l.password)
    IN  /\ \A k \in DOMAIN t : t[k].call = "token_login" <=> k = 1
        /\ (t # <<>> /\ t[1].result = "ok")
              => /\ Len(t) = 1
                 /\ ended
                 /\ l.outcome[1].kind = "instance"
        /\ (t # <<>> /\ t[1].result \in failed /\ missing /\ ended)
              => /\ Len(t) = 1
                 /\ l.outcome[1].kind = "exit"
                 /\ l.outcome[1].code = EXIT_TOKEN_FAILURE
        /\ \A k \in DOMAIN t :
              (t[k] = LibraryCall("credential_login", "needs_mfa")
                  /\ ~Truthy(l.mfa_code))
                 => /\ k = Len(t)
                    /\ ended
                    /\ l.outcome[1].kind = "exit"
                    /\ l.outcome[1].code = EXIT_MFA_REQUIRED
        /\ \A k \in DOMAIN t :
              t[k].call = "dump"
                 => /\ k > 2
                    /\ \/ t[k - 1] = LibraryCall("credential_login", "ok")
                       \/ /\ t[k - 1] = LibraryCall("resume_login", "ok")
                          /\ t[k - 2] = LibraryCall("credential_login", "needs_mfa")
                    /\ \A j \in 2..(k - 1) : t[j].result \in {"ok", "needs_mfa"}

\* C26 as stated: token login is tried first and, when it succeeds, nothing
\* else is tried; when it fails, in whatever way, and the email or the
\* password is missing, the outcome is token_invalid without a credential
\* login; an MFA challenge without an MFA code gives mfa_required; tokens are
\* written only after the credential login, and the MFA resume if challenged,
\* ended without error.
C26_LoginOrder ==
    \A i \in DOMAIN login : LoginOrder(login[i], {"caught", "other"})

\* C26 (amended): the same, with the token login counted as failed when it
\* raises one of the exceptions init_api catches (file not found, HTTP,
\* authentication or connection error); any other exception of the token
\* login leaves init_api, whatever the credentials.
C26_LoginOrderOnCaughtFailure ==
    \A i \in DOMAIN login :
        /\ LoginOrder(login[i], {"caught"})
        /\ (login[i].trace # <<>> /\ login[i].trace[1].result = "other")
              => /\ Len(login[i].trace) = 1
                 /\ login[i].outcome # <<>>
                 /\ login[i].outcome[1].kind = "raise"

\* the token login failed with a caught error, the email is given and the
\* password is empty: init_api has exited with token_invalid
C26_Witness ==
    /\ login # <<>>
    /\ login[1].trace = <<LibraryCall("token_login", "caught")>>
    /\ login[1].email = <<Strip(L_mail)>>
    /\ login[1].password = <<<<>>>>
    /\ login[1].outcome # <<>>
    /\ login[1].outcome[1].kind = "exit"
    /\ login[1].outcome[1].code = EXIT_TOKEN_FAILURE

\* C27: between two handled messages at most one of the flags
\* expecting_credentials and expecting_mfa is set for a user, so testing
\* expecting_mfa first loses nothing: the phase is awaiting_credentials
\* exactly when expecting_credentials is set, awaiting_mfa_code exactly when
\* expecting_mfa is set, and idle when neither is.
C27_AtMostOnePhaseFlag ==
    \A u \in Users :
        /\ ~(user_data[u].expecting_credentials /\ user_data[u].expecting_mfa)
        /\ Phase(user_data[u]) = "awaiting_credentials"
              <=> user_data[u].expecting_credentials
        /\ Phase(user_data[u]) = "awaiting_mfa_code" <=> user_data[u].expecting_mfa
        /\ Phase(user_data[u]) = "idle"
              <=> ~user_data[u].expecting_credentials /\ ~user_data[u].expecting_mfa

\* a message handled in awaiting_mfa_code was answered with token_invalid:
\* the user is asked for credentials and expecting_mfa is clear
C27_Witness ==
    /\ update.user = 1
    /\ update.phase = "awaiting_mfa_code"
    /\ call # <<>>
    /\ call[1].returned.code = EXIT_TOKEN_FAILURE
    /\ user_data[1].expecting_credentials
    /\ ~user_data[1].expecting_mfa

\* the messages the handler rejects: from a user who is not allowed, without
\* text, failing the validation in phase idle, or malformed as credentials
RejectedMessage(m) ==
    \/ ~Authorized(m.user)
    \/ StrippedText[m.text] = <<>>
    \/ m.phase = "idle" /\ ~Validated[m.user][m.text].ok
    \/ m.phase = "awaiting_credentials" /\ CredentialsMalformed(LinesOf[m.text])

====
